---- MODULE Spec2Model ----
(***************************************************************************)
(* A model of ascii_art.py: the pipeline run by main() (validate the       *)
(* palette, load, resize, grayscale, render, print, auto-save, optional    *)
(* user save) and the pure functions it is made of.                        *)
(*                                                                         *)
(* A Python str is modelled as a sequence of one-character strings; a      *)
(* Python float as an exact dyadic rational m * 2^e whose significand m is *)
(* rounded to 53 bits (nearest, ties to even) after every operation, the   *)
(* way CPython evaluates  a / b  and  a * b  on IEEE-754 doubles.          *)
(***************************************************************************)
EXTENDS Integers, Sequences, FiniteSets, TLC

VARIABLES
    pc,            \* the statement of main() that runs next
    args,          \* argparse namespace: image, width, chars, output, color
    imageFile,     \* what args.image names on disk: "absent", "corrupt", "valid"
    img,           \* size of the image load_image returned
    resampleArgs,  \* the (width, height) resize_image handed to img.resize
    resized,       \* the resized RGB buffer
    gray,          \* the grayscale ('L') buffer
    rows,          \* the rendered rows
    stdout,        \* the lines print() wrote, the art as the line MsgArt
    terminal,      \* the text of the art print_ascii wrote to the terminal
    fs,            \* received/ directory and the files written
    exitStatus,    \* the process exit status (meaningful once pc = "exit")
    traceback,     \* TRUE when the run ended in an uncaught exception
    calls          \* the stage functions main() has called, in order

vars == <<pc, args, imageFile, img, resampleArgs, resized, gray, rows, stdout,
          terminal, fs, exitStatus, traceback, calls>>

----------------------------------------------------------------------------
(* Bounds of the model *)

\* source images are at most MaxDim x MaxDim pixels
MaxDim == 2
\* the rendering specification draws resized buffers of at most MaxRows rows
MaxRows == 1
\* the mapping specification draws palettes of at most MaxRampLen characters
MaxRampLen == 52

\* the values of --width the model tries (argparse accepts any int)
Widths == {-1, 0, 1, 2, 3}

----------------------------------------------------------------------------
(* Natural numbers of any size, as little-endian sequences of limbs, for   *)
(* the 53-bit significands of Python floats and their 106-bit products.    *)

LimbBits == 14
LimbBase == 16384
MantissaBits == 53

RECURSIVE Pow2(_)
Pow2(k) == IF k = 0 THEN 1 ELSE 2 * Pow2(k - 1)

RECURSIVE IntBitLen(_)
IntBitLen(n) == IF n = 0 THEN 0 ELSE 1 + IntBitLen(n \div 2)

RECURSIVE BigNorm(_)
BigNorm(x) ==
    IF x = <<>> THEN x
    ELSE IF x[Len(x)] = 0 THEN BigNorm(SubSeq(x, 1, Len(x) - 1)) ELSE x

RECURSIVE BigFromInt(_)
BigFromInt(n) ==
    IF n = 0 THEN <<>> ELSE <<n % LimbBase>> \o BigFromInt(n \div LimbBase)

RECURSIVE BigToInt(_)
BigToInt(x) == IF x = <<>> THEN 0 ELSE x[1] + LimbBase * BigToInt(Tail(x))

RECURSIVE BigMulSmall(_, _, _)
BigMulSmall(x, k, carry) ==
    IF x = <<>> THEN BigFromInt(carry)
    ELSE LET t == x[1] * k + carry
         IN  <<t % LimbBase>> \o BigMulSmall(Tail(x), k, t \div LimbBase)

RECURSIVE BigAdd(_, _, _)
BigAdd(x, y, carry) ==
    IF x = <<>> /\ y = <<>> THEN BigFromInt(carry)
    ELSE LET a == IF x = <<>> THEN 0 ELSE x[1]
             b == IF y = <<>> THEN 0 ELSE y[1]
             t == a + b + carry
         IN  <<t % LimbBase>>
               \o BigAdd(IF x = <<>> THEN x ELSE Tail(x),
                         IF y = <<>> THEN y ELSE Tail(y), t \div LimbBase)

RECURSIVE BigMul(_, _)
BigMul(x, y) ==
    IF y = <<>> \/ x = <<>> THEN <<>>
    ELSE BigNorm(BigAdd(BigMulSmall(x, y[1], 0), <<0>> \o BigMul(x, Tail(y)), 0))

\* quotient and remainder of x by a divisor d < LimbBase
RECURSIVE BigDivRem(_, _)
BigDivRem(x, d) ==
    IF x = <<>> THEN [q |-> <<>>, r |-> 0]
    ELSE LET hi == BigDivRem(Tail(x), d)
             t  == hi.r * LimbBase + x[1]
         IN  [q |-> <<t \div d>> \o hi.q, r |-> t % d]

BigShl(x, s) ==
    IF x = <<>> THEN x
    ELSE [i \in 1..(s \div LimbBits) |-> 0] \o BigMulSmall(x, Pow2(s % LimbBits), 0)

BigShr(x, s) ==
    LET a == s \div LimbBits
    IN  IF a >= Len(x) THEN <<>>
        ELSE BigNorm(BigDivRem(SubSeq(x, a + 1, Len(x)), Pow2(s % LimbBits)).q)

BigBitLen(x) ==
    IF x = <<>> THEN 0 ELSE LimbBits * (Len(x) - 1) + IntBitLen(x[Len(x)])

BigLowBit(x) == IF x = <<>> THEN 0 ELSE x[1] % 2

----------------------------------------------------------------------------
(* Python float arithmetic on non-negative values *)

\* the double nearest to the exact value X * 2^E (ties to even)
RoundToDouble(X, E) ==
    LET L == BigBitLen(X)
    IN  IF L <= MantissaBits THEN [m |-> X, e |-> E]
        ELSE LET s      == L - MantissaBits
                 y      == BigShr(X, s - 1)
                 q      == BigShr(X, s)
                 sticky == BigNorm(BigShl(y, s - 1)) # X
                 up     == BigLowBit(y) = 1 /\ (sticky \/ BigLowBit(q) = 1)
             IN  [m |-> IF up THEN BigNorm(BigAdd(q, <<1>>, 0)) ELSE q,
                  e |-> E + s]

\* float(n) for an int n >= 0 (exact below 2^53)
FloatFromInt(n) == [m |-> BigFromInt(n), e |-> 0]

\* p / q for ints p >= 0, 0 < q < LimbBase: the correctly rounded quotient.
\* The quotient is cut after 70 fractional bits and the rest kept as one
\* sticky bit, which leaves the rounding decision unchanged.
FloatDiv(p, q) ==
    IF p = 0 THEN [m |-> <<>>, e |-> 0]
    ELSE LET dr == BigDivRem(BigShl(BigFromInt(p), 70), q)
             x2 == BigAdd(BigMulSmall(BigNorm(dr.q), 2, 0),
                          IF dr.r = 0 THEN <<>> ELSE <<1>>, 0)
         IN  RoundToDouble(BigNorm(x2), -71)

\* a * b
FloatMul(a, b) == RoundToDouble(BigMul(a.m, b.m), a.e + b.e)

\* int(a): truncation toward zero
FloatTrunc(a) ==
    IF a.e >= 0 THEN BigToInt(BigShl(a.m, a.e)) ELSE BigToInt(BigShr(a.m, -a.e))

----------------------------------------------------------------------------
(* Configuration *)

ESC == "<ESC>"
NL == "\n"

DEFAULT_CHARS == <<"@", "%", "#", "*", "+", "=", "-", ":", ".", " ">>

\* the float literal 0.45
CHAR_ASPECT_RATIO == FloatDiv(45, 100)

\* RGB pixels the resampler may produce
Black == <<0, 0, 0>>
White == <<255, 255, 255>>
Grey  == <<128, 128, 128>>
Red   == <<255, 0, 0>>

\* colours the resampler's output is drawn from, per specification
MainColors   == {Black, White}
RenderColors == {Red, Grey, White}

\* args.output when --output is not given (argparse default None)
NoOutput == "<None>"

\* values of --chars the pipeline specification tries
ArgChars == {<<>>, <<"@">>, <<"@", " ">>, DEFAULT_CHARS}

\* values of --chars the rendering specification tries: any characters are
\* accepted, the escape character, '[', 'm', digits and newline included
RenderChars ==
    {<<"@", " ">>, <<"@", "#", " ">>, <<ESC, "[", "m">>, <<"m", "[", ESC>>,
     <<ESC, "[">>, <<"[", "0", "m">>, <<";", "m", ESC>>, <<NL, "@">>}

\* characters of the long palettes of the mapping specification
Ramp ==
    <<"0", "1", "2", "3", "4", "5", "6", "7", "8", "9",
      "a", "b", "c", "d", "e", "f", "g", "h", "i", "j", "k", "l", "m",
      "n", "o", "p", "q", "r", "s", "t", "u", "v", "w", "x", "y", "z",
      "A", "B", "C", "D", "E", "F", "G", "H", "I", "J", "K", "L", "M",
      "N", "O", "P", "Q", "R", "S", "T", "U", "V", "W", "X", "Y", "Z">>

NoImage  == [w |-> 0, h |-> 0]
NoBuffer == [w |-> 0, h |-> 0, px |-> <<>>]
NoFiles  == [p \in {} |-> <<>>]

----------------------------------------------------------------------------
(* Core functions *)

\* build_auto_save_path: received/<stem>_<timestamp>.txt
build_auto_save_path(image_path) ==
    <<"received", image_path.stem, "<timestamp>", "txt">>

\* target_height of resize_image:
\*   int(original_height * target_width / original_width * CHAR_ASPECT_RATIO)
\* (int * int is exact, / and * are float operations, int() truncates
\* toward zero; a negative product is handled by its magnitude)
target_height(original_width, original_height, target_width) ==
    LET n   == original_height * target_width
        mag == FloatTrunc(FloatMul(FloatDiv(IF n < 0 THEN -n ELSE n,
                                            original_width),
                                   CHAR_ASPECT_RATIO))
    IN  IF n < 0 THEN -mag ELSE mag

\* the size resize_image passes to img.resize
resize_image(image, target_width) ==
    <<target_width, target_height(image.w, image.h, target_width)>>

\* img.resize raises ValueError("height and width must be > 0") otherwise
ResizeAccepts(size) == size[1] >= 1 /\ size[2] >= 1

\* Pillow's RGB -> L conversion (ITU-R 601-2 luma, 16-bit fixed point)
Luma(rgb) == (rgb[1] * 19595 + rgb[2] * 38470 + rgb[3] * 7471 + 32768) \div 65536

to_grayscale(image) ==
    [w |-> image.w, h |-> image.h,
     px |-> [i \in DOMAIN image.px |-> Luma(image.px[i])]]

\* index = int(pixel_value / 255 * (len(char_set) - 1))
pixel_index(pixel_value, char_set) ==
    FloatTrunc(FloatMul(FloatDiv(pixel_value, 255),
                        FloatFromInt(Len(char_set) - 1)))

pixel_to_ascii(pixel_value, char_set) ==
    char_set[pixel_index(pixel_value, char_set) + 1]

image_to_ascii(gray_img, char_set) ==
    [row_index \in 1..gray_img.h |->
        [k \in 1..gray_img.w |->
            pixel_to_ascii(gray_img.px[(row_index - 1) * gray_img.w + k],
                           char_set)]]

----------------------------------------------------------------------------
(* Colored (ANSI) output helpers *)

DigitChars == <<"0", "1", "2", "3", "4", "5", "6", "7", "8", "9">>

\* str(n) for an int n >= 0
RECURSIVE Str(_)
Str(n) ==
    IF n < 10 THEN <<DigitChars[n + 1]>>
    ELSE Str(n \div 10) \o <<DigitChars[(n % 10) + 1]>>

\* f"\033[38;2;{r};{g};{b}m{text}\033[0m"
make_ansi_color(r, g, b, text) ==
    <<ESC, "[", "3", "8", ";", "2", ";">> \o Str(r) \o <<";">> \o Str(g)
        \o <<";">> \o Str(b) \o <<"m">> \o text \o <<ESC, "[", "0", "m">>

RECURSIVE Concat(_)
Concat(ss) == IF ss = <<>> THEN <<>> ELSE Head(ss) \o Concat(Tail(ss))

\* a rendering that picks the character from the red channel of the colour
\* pixel instead of the grayscale pixel
image_to_ascii_colored_from_red(original_img, gray_img, char_set) ==
    [row_index \in 1..gray_img.h |->
        Concat([k \in 1..gray_img.w |->
            LET col_index == (row_index - 1) * gray_img.w + k
                rgb       == original_img.px[col_index]
                char      == pixel_to_ascii(rgb[1], char_set)
            IN  make_ansi_color(rgb[1], rgb[2], rgb[3], <<char>>)])]

image_to_ascii_colored(original_img, gray_img, char_set) ==
    [row_index \in 1..gray_img.h |->
        Concat([k \in 1..gray_img.w |->
            LET col_index == (row_index - 1) * gray_img.w + k
                char      == pixel_to_ascii(gray_img.px[col_index], char_set)
                rgb       == original_img.px[col_index]
            IN  make_ansi_color(rgb[1], rgb[2], rgb[3], <<char>>)])]

----------------------------------------------------------------------------
(* Output functions *)

\* print("\n".join(rows)): the text written to the terminal
print_ascii(rs) ==
    Concat([i \in 1..Len(rs) |->
              IF i < Len(rs) THEN rs[i] \o <<NL>> ELSE rs[i]]) \o <<NL>>

\* the character class [0-9;] of the pattern
AnsiParam(c) == c \in {"0", "1", "2", "3", "4", "5", "6", "7", "8", "9", ";"}

\* end of the longest run of [0-9;] that starts at position i
RECURSIVE ParamEnd(_, _)
ParamEnd(s, i) ==
    IF i <= Len(s) /\ AnsiParam(s[i]) THEN ParamEnd(s, i + 1) ELSE i

\* re.compile(r"\033\[[0-9;]*m").sub("", row): leftmost non-overlapping
\* matches are removed in one pass, from position i on
RECURSIVE AnsiSub(_, _)
AnsiSub(s, i) ==
    IF i > Len(s) THEN <<>>
    ELSE LET j == ParamEnd(s, i + 2)
         IN  IF /\ s[i] = ESC
                /\ i + 1 <= Len(s) /\ s[i + 1] = "["
                /\ j <= Len(s) /\ s[j] = "m"
             THEN AnsiSub(s, j + 1)
             ELSE <<s[i]>> \o AnsiSub(s, i + 1)

ansi_escape_sub(row) == AnsiSub(row, 1)

\* a save that joins the cleaned rows with "\n" and ends without one
save_ascii_joined(rs) ==
    Concat([i \in 1..Len(rs) |->
              IF i < Len(rs) THEN ansi_escape_sub(rs[i]) \o <<NL>>
              ELSE ansi_escape_sub(rs[i])])

\* the text save_ascii writes: each cleaned row followed by "\n"
save_ascii(rs) ==
    Concat([i \in 1..Len(rs) |-> ansi_escape_sub(rs[i]) \o <<NL>>])

WriteFile(files, path, text) ==
    [p \in DOMAIN files \cup {path} |-> IF p = path THEN text ELSE files[p]]

----------------------------------------------------------------------------
(* main(): one action per stage *)

MsgCharsError    == "Error: --chars must contain at least 2 characters."
MsgLoading       == "Loading image: ..."
MsgNotFound      == "Error: File not found"
MsgCouldNotOpen  == "Error: Could not open image"
MsgResizing      == "Resizing to width=... characters"
MsgGenColored    == "Generating colored ASCII art"
MsgGenPlain      == "Generating ASCII art"
MsgArt           == "<the rows, joined by newlines>"
MsgSaved         == "ASCII art saved to: ..."
MsgCouldNotWrite == "Error: Could not write file"

ErrorLines == {MsgCharsError, MsgNotFound, MsgCouldNotOpen, MsgCouldNotWrite}

\* sys.exit(1) after a printed error
SysExit1 ==
    /\ pc' = "exit"
    /\ exitStatus' = 1
    /\ UNCHANGED traceback

\* an exception nothing catches: the interpreter prints the traceback and
\* ends the process with status 1
Uncaught ==
    /\ pc' = "exit"
    /\ exitStatus' = 1
    /\ traceback' = TRUE

\* truth value of args.output in  if args.output:
Truthy(output) == output # NoOutput /\ output # ""

Init ==
    /\ pc = "validate"
    /\ args \in [image : {[stem |-> "photo", ext |-> "jpg"]},
                 width : Widths,
                 chars : ArgChars,
                 output : {NoOutput, "", "out.txt"},
                 color : BOOLEAN]
    /\ imageFile \in {"absent", "corrupt", "valid"}
    /\ img = NoImage
    /\ resampleArgs = <<>>
    /\ resized = NoBuffer
    /\ gray = NoBuffer
    /\ rows = <<>>
    /\ stdout = <<>>
    /\ terminal = <<>>
    /\ fs = [dir |-> "absent", files |-> NoFiles]
    /\ exitStatus = 0
    /\ traceback = FALSE
    /\ calls = <<>>

\* a validation that only rejects the empty palette
ValidChars_nonempty(chars) == Len(chars) >= 1

\* Step 1: validate the character set
ValidChars(chars) == Len(chars) >= 2

Validate ==
    /\ pc = "validate"
    /\ UNCHANGED terminal
    /\ IF ValidChars(args.chars)
       THEN /\ pc' = "load"
            /\ UNCHANGED <<stdout, exitStatus, traceback>>
       ELSE /\ stdout' = Append(stdout, MsgCharsError)
            /\ SysExit1
    /\ UNCHANGED <<args, imageFile, img, resampleArgs, resized, gray, rows, fs,
                   calls>>

\* a load_image without the verify() call: a corrupt file is returned
load_image_unverified(file) ==
    IF file = "absent" THEN "notfound" ELSE "ok"

\* what load_image does with the file: "notfound" and "error" end in
\* sys.exit(1), "ok" returns the image
load_image(file) ==
    IF file = "absent" THEN "notfound"
    ELSE IF file = "corrupt" THEN "error" ELSE "ok"

\* Step 2: load the image
LoadImage ==
    /\ pc = "load"
    /\ UNCHANGED terminal
    /\ calls' = Append(calls, "load_image")
    /\ LET outcome == load_image(imageFile)
       IN  \/ /\ outcome = "notfound"
              /\ stdout' = stdout \o <<MsgLoading, MsgNotFound>>
              /\ SysExit1
              /\ UNCHANGED img
           \/ /\ outcome = "error"
              /\ stdout' = stdout \o <<MsgLoading, MsgCouldNotOpen>>
              /\ SysExit1
              /\ UNCHANGED img
           \/ /\ outcome = "ok"
              /\ stdout' = Append(stdout, MsgLoading)
              /\ \E w \in 1..MaxDim, h \in 1..MaxDim : img' = [w |-> w, h |-> h]
              /\ pc' = "resize"
              /\ UNCHANGED <<exitStatus, traceback>>
    /\ UNCHANGED <<args, imageFile, resampleArgs, resized, gray, rows, fs>>

\* Step 3: resize.  The resampler's output pixels are any colours.
ResizeImage ==
    /\ pc = "resize"
    /\ UNCHANGED terminal
    /\ calls' = Append(calls, "resize_image")
    /\ stdout' = Append(stdout, MsgResizing)
    /\ LET size == resize_image(img, args.width)
       IN  /\ resampleArgs' = size
           /\ IF ResizeAccepts(size)
              THEN /\ \E px \in [1..(size[1] * size[2]) -> MainColors] :
                        resized' = [w |-> size[1], h |-> size[2], px |-> px]
                   /\ pc' = "gray"
                   /\ UNCHANGED <<exitStatus, traceback>>
              ELSE /\ Uncaught
                   /\ UNCHANGED resized
    /\ UNCHANGED <<args, imageFile, img, gray, rows, fs>>

\* Step 4: grayscale conversion
ToGrayscale ==
    /\ pc = "gray"
    /\ UNCHANGED terminal
    /\ calls' = Append(calls, "to_grayscale")
    /\ gray' = to_grayscale(resized)
    /\ pc' = "generate"
    /\ UNCHANGED <<args, imageFile, img, resampleArgs, resized, rows, stdout, fs,
                   exitStatus, traceback>>

\* Step 5: generate the rows
Generate ==
    /\ pc = "generate"
    /\ UNCHANGED terminal
    /\ IF args.color
       THEN /\ stdout' = Append(stdout, MsgGenColored)
            /\ calls' = Append(calls, "image_to_ascii_colored")
            /\ rows' = image_to_ascii_colored(resized, gray, args.chars)
       ELSE /\ stdout' = Append(stdout, MsgGenPlain)
            /\ calls' = Append(calls, "image_to_ascii")
            /\ rows' = image_to_ascii(gray, args.chars)
    /\ pc' = "print"
    /\ UNCHANGED <<args, imageFile, img, resampleArgs, resized, gray, fs,
                   exitStatus, traceback>>

\* Step 6: print to the terminal
PrintAscii ==
    /\ pc = "print"
    /\ calls' = Append(calls, "print_ascii")
    /\ stdout' = Append(stdout, MsgArt)
    /\ terminal' = print_ascii(rows)
    /\ pc' = "ensure_dir"
    /\ UNCHANGED <<args, imageFile, img, resampleArgs, resized, gray, rows, fs,
                   exitStatus, traceback>>

\* Step 7a: ensure_received_dir.  os.makedirs(exist_ok=True) creates the
\* directory or raises OSError, which nothing catches.
EnsureReceivedDir ==
    /\ pc = "ensure_dir"
    /\ UNCHANGED terminal
    /\ calls' = Append(calls, "ensure_received_dir")
    /\ \E created \in BOOLEAN :
         IF created
         THEN /\ fs' = [fs EXCEPT !.dir = "present"]
              /\ pc' = "auto_save"
              /\ UNCHANGED <<exitStatus, traceback>>
         ELSE /\ Uncaught
              /\ UNCHANGED fs
    /\ UNCHANGED <<args, imageFile, img, resampleArgs, resized, gray, rows,
                   stdout>>

\* save_ascii(rows, output_path): open() succeeds and the rows are written,
\* or it raises OSError, which is caught and reported
SaveAscii(output_path, writable) ==
    IF writable
    THEN /\ fs' = [fs EXCEPT !.files = WriteFile(@, output_path, save_ascii(rows))]
         /\ stdout' = Append(stdout, MsgSaved)
    ELSE /\ stdout' = Append(stdout, MsgCouldNotWrite)
         /\ UNCHANGED fs

\* Step 7b: always auto-save to received/
AutoSave ==
    /\ pc = "auto_save"
    /\ UNCHANGED terminal
    /\ calls' = Append(calls, "save_ascii(auto_path)")
    /\ \E writable \in BOOLEAN :
         SaveAscii(build_auto_save_path(args.image), writable)
    /\ pc' = "user_save"
    /\ UNCHANGED <<args, imageFile, img, resampleArgs, resized, gray, rows,
                   exitStatus, traceback>>

\* Step 8: if args.output: save_ascii(rows, args.output); main() returns
UserSave ==
    /\ pc = "user_save"
    /\ UNCHANGED terminal
    /\ Truthy(args.output)
    /\ calls' = Append(calls, "save_ascii(args.output)")
    /\ \E writable \in BOOLEAN : SaveAscii(<<args.output>>, writable)
    /\ pc' = "exit"
    /\ exitStatus' = 0
    /\ UNCHANGED <<args, imageFile, img, resampleArgs, resized, gray, rows,
                   traceback>>

\* Step 8 with nothing to save: main() returns
Return ==
    /\ pc = "user_save"
    /\ UNCHANGED terminal
    /\ ~Truthy(args.output)
    /\ pc' = "exit"
    /\ exitStatus' = 0
    /\ UNCHANGED <<args, imageFile, img, resampleArgs, resized, gray, rows,
                   stdout, fs, traceback, calls>>

Next ==
    \/ Validate
    \/ LoadImage
    \/ ResizeImage
    \/ ToGrayscale
    \/ Generate
    \/ PrintAscii
    \/ EnsureReceivedDir
    \/ AutoSave
    \/ UserSave
    \/ Return

Spec == Init /\ [][Next]_vars

----------------------------------------------------------------------------
(* The rendering stages alone, from the state main() is in when            *)
(* resize_image has returned, over palettes of any characters and resized  *)
(* buffers of any of three colours.                                        *)

InitRender ==
    /\ pc = "gray"
    /\ args \in [image : {[stem |-> "photo", ext |-> "jpg"]},
                 width : {w \in Widths : w >= 1},
                 chars : RenderChars,
                 output : {NoOutput},
                 color : BOOLEAN]
    /\ imageFile = "valid"
    /\ img \in [w : 1..MaxDim, h : 1..MaxDim]
    /\ resampleArgs = resize_image(img, args.width)
    /\ ResizeAccepts(resampleArgs)
    /\ resampleArgs[2] <= MaxRows
    /\ resized \in [w : {resampleArgs[1]}, h : {resampleArgs[2]},
                    px : [1..(resampleArgs[1] * resampleArgs[2]) -> RenderColors]]
    /\ gray = NoBuffer
    /\ rows = <<>>
    /\ stdout = <<MsgLoading, MsgResizing>>
    /\ terminal = <<>>
    /\ fs = [dir |-> "absent", files |-> NoFiles]
    /\ exitStatus = 0
    /\ traceback = FALSE
    /\ calls = <<"load_image", "resize_image">>

NextRender ==
    \/ ToGrayscale
    \/ Generate
    \/ PrintAscii
    \/ EnsureReceivedDir
    \/ AutoSave
    \/ Return

SpecRender == InitRender /\ [][NextRender]_vars

----------------------------------------------------------------------------
(* The character mapping alone: main() about to render a 1x1 grayscale     *)
(* buffer of any luminosity with a palette of up to MaxRampLen characters. *)

InitMap ==
    /\ pc = "generate"
    /\ \E n \in 2..MaxRampLen :
         args = [image |-> [stem |-> "photo", ext |-> "jpg"],
                 width |-> 1,
                 chars |-> SubSeq(Ramp, 1, n),
                 output |-> NoOutput,
                 color |-> FALSE]
    /\ imageFile = "valid"
    /\ img = [w |-> 1, h |-> 3]
    /\ resampleArgs = resize_image(img, args.width)
    /\ \E v \in 0..255 : resized = [w |-> 1, h |-> 1, px |-> <<<<v, v, v>>>>]
    /\ gray = to_grayscale(resized)
    /\ rows = <<>>
    /\ stdout = <<MsgLoading, MsgResizing>>
    /\ terminal = <<>>
    /\ fs = [dir |-> "absent", files |-> NoFiles]
    /\ exitStatus = 0
    /\ traceback = FALSE
    /\ calls = <<"load_image", "resize_image", "to_grayscale">>

NextMap == Generate

SpecMap == InitMap /\ [][NextMap]_vars

----------------------------------------------------------------------------
(* Properties *)

Range(s) == {s[i] : i \in DOMAIN s}

Called(f) == f \in Range(calls)

LastCall == IF calls = <<>> THEN "" ELSE calls[Len(calls)]

AutoPath == build_auto_save_path(args.image)

\* C1: for every luminosity v in 0..255 and every palette of length n >= 2,
\* pixel_to_ascii(v, palette) is palette[floor(v/255*(n-1))]; the index lies
\* in [0, n-1], v = 0 gives palette[0] and v = 255 gives palette[n-1].
C1_pixel_to_ascii_is_floor ==
    (pc = "print" /\ ~args.color) =>
        \A r \in 1..gray.h : \A k \in 1..gray.w :
            LET v == gray.px[(r - 1) * gray.w + k]
                n == Len(args.chars)
                i == pixel_index(v, args.chars)
            IN  /\ i \in 0..(n - 1)
                /\ rows[r][k] = args.chars[((v * (n - 1)) \div 255) + 1]
                /\ (v = 0 => rows[r][k] = args.chars[1])
                /\ (v = 255 => rows[r][k] = args.chars[n])

\* nearest integer to num/den (halves upward), den > 0
RoundNearest(num, den) == (2 * num + den) \div (2 * den)

\* C2: for every source image (both sides >= 1) and every positive
\* targetColumns, resize_image produces a buffer of width targetColumns and
\* height round(originalHeight * targetColumns / originalWidth * 0.45),
\* clamped to at least 1.
C2_resized_height_rounded_and_clamped ==
    (Called("resize_image") /\ args.width >= 1) =>
        LET rounded == RoundNearest(9 * img.h * args.width, 20 * img.w)
        IN  /\ resized.w = args.width
            /\ resized.h = IF rounded < 1 THEN 1 ELSE rounded

\* C3: when the computed row count is 0 resize_image does not crash and at
\* least one row is rendered: the row count passed to the resampler is never
\* less than 1.
C3_rows_passed_to_resampler_at_least_one ==
    (Called("resize_image") /\ args.width >= 1) =>
        /\ resampleArgs[2] >= 1
        /\ ~(traceback /\ LastCall = "resize_image")
        /\ (Called("print_ascii") => Len(rows) >= 1)

\* C4: the rows of image_to_ascii_colored, with the colour escape sequences
\* stripped as save_ascii strips them, are the rows image_to_ascii gives
\* for the same image and palette; so is the text saved from them.
C4_colored_stripped_equals_plain ==
    (args.color /\ Called("image_to_ascii_colored")) =>
        LET plain == image_to_ascii(gray, args.chars)
        IN  /\ [i \in 1..Len(rows) |-> ansi_escape_sub(rows[i])] = plain
            /\ \A p \in DOMAIN fs.files :
                 fs.files[p] = Concat([i \in 1..Len(plain) |-> plain[i] \o <<NL>>])

\* C4 witness: a coloured run saved a row whose characters are themselves
\* ESC, '[' and 'm'
C4_witness ==
    /\ args.color
    /\ pc = "exit"
    /\ AutoPath \in DOMAIN fs.files
    /\ image_to_ascii(gray, args.chars) = << <<ESC, "[", "m">> >>

\* C5: a palette of length 0 or 1 is rejected (error, exit status 1) before
\* load_image is called, whether or not the image exists.
C5_short_palette_rejected_before_load ==
    Len(args.chars) < 2 =>
        /\ ~Called("load_image")
        /\ pc \in {"validate", "exit"}
        /\ (pc = "exit" =>
              /\ exitStatus = 1
              /\ ~traceback
              /\ stdout = <<MsgCharsError>>)

C5_witness ==
    /\ pc = "exit"
    /\ Len(args.chars) = 1
    /\ imageFile = "valid"

\* C6: an invalid palette, a missing input file and an undecodable image are
\* fatal: the error is reported, the exit status is non-zero, no art is
\* printed, received/ is not created and no file is written.
C6_fatal_errors_produce_no_output ==
    (Len(args.chars) < 2 \/ imageFile \in {"absent", "corrupt"}) =>
        /\ pc \in {"validate", "load", "exit"}
        /\ MsgArt \notin Range(stdout)
        /\ terminal = <<>>
        /\ fs = [dir |-> "absent", files |-> NoFiles]
        /\ (pc = "exit" =>
              /\ exitStatus = 1
              /\ ~traceback
              /\ stdout # <<>>
              /\ stdout[Len(stdout)] =
                    IF Len(args.chars) < 2 THEN MsgCharsError
                    ELSE IF imageFile = "absent" THEN MsgNotFound
                    ELSE MsgCouldNotOpen)

C6_witness ==
    /\ pc = "exit"
    /\ Len(args.chars) >= 2
    /\ imageFile = "corrupt"
    /\ args.output = "out.txt"

\* C7: once the art is printed, whatever fails among creating received/, the
\* auto-save and the user save, each failure is reported, the other save is
\* still attempted and the run ends with exit status 0.
C7_save_failures_independent ==
    (pc = "exit" /\ Called("print_ascii")) =>
        /\ exitStatus = 0
        /\ ~traceback
        /\ Called("save_ascii(auto_path)")
        /\ (Truthy(args.output) => Called("save_ascii(args.output)"))

\* C8: in plain mode, for every accepted palette, the file save_ascii writes
\* has one newline-terminated line per rendered row and each line has
\* exactly targetColumns characters.
C8_saved_file_has_row_per_line ==
    (~args.color /\ AutoPath \in DOMAIN fs.files) =>
        LET text == fs.files[AutoPath]
            w    == args.width
        IN  /\ Len(text) = gray.h * (w + 1)
            /\ \A i \in 1..Len(text) : (text[i] = NL) <=> (i % (w + 1) = 0)

\* a row holds ESC '[' (digits or ';')* 'm' somewhere
HasAnsiSequence(row) ==
    \E i \in 1..Len(row) : \E j \in (i + 2)..Len(row) :
        /\ row[i] = ESC
        /\ row[i + 1] = "["
        /\ row[j] = "m"
        /\ \A k \in (i + 2)..(j - 1) : AnsiParam(row[k])

\* C8, amended: in plain mode, when no rendered row holds a newline or an
\* ANSI escape sequence (so for every palette without ESC and newline), the
\* file save_ascii writes has one newline-terminated line per rendered row
\* and each line has exactly targetColumns characters.
C8_saved_file_has_row_per_line_without_escapes ==
    (/\ ~args.color
     /\ AutoPath \in DOMAIN fs.files
     /\ \A r \in 1..Len(rows) :
           NL \notin Range(rows[r]) /\ ~HasAnsiSequence(rows[r])) =>
        LET text == fs.files[AutoPath]
            w    == args.width
        IN  /\ Len(rows) = gray.h
            /\ Len(text) = gray.h * (w + 1)
            /\ \A i \in 1..Len(text) : (text[i] = NL) <=> (i % (w + 1) = 0)

\* C8 witness: a plain run saved a row that holds ESC but no escape sequence
C8_witness ==
    /\ ~args.color
    /\ pc = "exit"
    /\ AutoPath \in DOMAIN fs.files
    /\ \A r \in 1..Len(rows) :
          NL \notin Range(rows[r]) /\ ~HasAnsiSequence(rows[r])
    /\ ESC \in Range(rows[1])
    /\ "[" \in Range(rows[1])

\* C9: every run that passes validation and loading runs resize, grayscale,
\* render, print, auto-save, user save in that order: the auto-save exactly
\* once, never before the print, and the user save after it exactly when an
\* output path was given.
C9_stages_in_fixed_order ==
    (pc = "exit" /\ Len(args.chars) >= 2 /\ imageFile = "valid") =>
        calls = <<"load_image", "resize_image", "to_grayscale",
                  IF args.color THEN "image_to_ascii_colored"
                                ELSE "image_to_ascii",
                  "print_ascii", "ensure_received_dir",
                  "save_ascii(auto_path)">>
                \o (IF args.output # NoOutput
                    THEN <<"save_ascii(args.output)">> ELSE <<>>)

\* C10: every failing run ends in a handled error: a printed one-line
\* explanation, never an uncaught exception with a stack trace.
C10_failures_are_handled ==
    (pc = "exit" /\ exitStatus # 0) =>
        /\ ~traceback
        /\ stdout # <<>>
        /\ stdout[Len(stdout)] \in ErrorLines

====
